---- MODULE Spec2Model ----
(***************************************************************************)
(* Two-tier response cache of the airport queue predictor:                 *)
(*   - ApiCache (lib/cache.js), the in-process server cache, and the       *)
(*     /api/predict handler that uses it (api/predict.js);                 *)
(*   - FrontendCache (script.js), the browser cache made of a memory Map   *)
(*     and localStorage, and fetchAndDisplayPrediction that uses it.       *)
(*                                                                         *)
(* Strings are sequences of tokens, so that concatenation and startsWith   *)
(* are the real operations on them.  Time is counted in ticks of TickMs    *)
(* milliseconds; every event happens on a tick.                            *)
(***************************************************************************)
EXTENDS Integers, Sequences, FiniteSets, TLC

----------------------------------------------------------------------------
(* Bounds of the model *)

\* the clock runs from 0 to MaxTime ticks
MaxTime == 3
\* the ttl arguments of a direct set() call are 1..MaxTTL ticks
MaxTTL == 2

----------------------------------------------------------------------------
(* Time *)

\* one tick, in milliseconds: the 30 minutes a flight prediction is cached for
TickMs == 1800000

\* milliseconds to ticks
Ticks(ms) == ms \div TickMs

TTLs == 1..MaxTTL

----------------------------------------------------------------------------
(* Strings: sequences of tokens *)

Str(tok) == <<tok>>

\* the value undefined (a missing query parameter), kept apart from every string
Undefined == <<"#undefined">>

\* `${v}` in a template literal: undefined becomes the string "undefined"
ToStr(v) == IF v = Undefined THEN Str("undefined") ELSE v

\* String.prototype.startsWith
startsWith(s, p) == Len(p) <= Len(s) /\ SubSeq(s, 1, Len(p)) = p

\* the parameter names the program uses, in the order Array.prototype.sort
\* (UTF-16 code units) gives them
NameOrder == <<"airport", "code", "date">>

Rank(name) == CHOOSE i \in 1..Len(NameOrder) : NameOrder[i] = name

RECURSIVE Insert(_, _)
\* insert a name into a sorted sequence of names
Insert(name, sorted) ==
    IF sorted = <<>> THEN <<name>>
    ELSE IF Rank(name) <= Rank(Head(sorted)) THEN <<name>> \o sorted
    ELSE <<Head(sorted)>> \o Insert(name, Tail(sorted))

\* the names as Object.keys gives them, left unsorted
SortNames_insertionOrder(params) == [i \in 1..Len(params) |-> params[i][1]]

RECURSIVE SortNames(_)
\* Object.keys(params).sort(): params is a sequence of <<name, value>> pairs
\* in insertion order
SortNames(params) ==
    IF params = <<>> THEN <<>>
    ELSE Insert(Head(params)[1], SortNames(Tail(params)))

\* params[name]
Lookup(params, name) ==
    LET i == CHOOSE j \in 1..Len(params) : params[j][1] = name
    IN  params[i][2]

RECURSIVE JoinParams(_, _)
\* .map(key => `${key}=${params[key]}`).join('&')
JoinParams(names, params) ==
    IF names = <<>> THEN <<>>
    ELSE LET n == Head(names)
             one == Str(n) \o Str("=") \o ToStr(Lookup(params, n))
         IN  IF Len(names) = 1 THEN one
             ELSE one \o Str("&") \o JoinParams(Tail(names), params)

\* ApiCache.generateKey
generateKey(prefix, params) ==
    Str(prefix) \o Str(":") \o JoinParams(SortNames(params), params)

\* the namespace of the singleton FrontendCache
namespace == Str("airportQueue")

\* a key without the namespace of the cache in front
key_withoutNamespace(prefix, params) ==
    Str(prefix) \o Str(":") \o JoinParams(SortNames(params), params)

\* FrontendCache.key
key(prefix, params) ==
    namespace \o Str(":") \o Str(prefix) \o Str(":")
        \o JoinParams(SortNames(params), params)

\* the arguments of a key builder: given = FALSE when params is undefined or
\* null
KeyArgs(prefix, given, params) == [prefix |-> prefix, given |-> given, params |-> params]

\* a call of ApiCache.generateKey: Object.keys(params) throws a TypeError
\* when params is undefined or null
generateKey_call(in) ==
    IF ~in.given THEN [threw |-> TRUE, ret |-> Undefined]
    ELSE [threw |-> FALSE, ret |-> generateKey(in.prefix, in.params)]

\* a call of FrontendCache.key: Object.keys(params || {})
key_call(in) ==
    [threw |-> FALSE, ret |-> key(in.prefix, IF in.given THEN in.params ELSE <<>>)]

----------------------------------------------------------------------------
(* Payloads *)

\* what the provider returns for the arrivals and for the departures
ArrivalsData == {"a1", "a2"}
DeparturesData == {"d1"}

\* analyzeFlights: the response body computed from the two flight lists
analyzeFlights(arrivals, departures) ==
    [arrivals |-> arrivals, departures |-> departures]

Payloads == {analyzeFlights(a, d) : a \in ArrivalsData, d \in DeparturesData}

\* JavaScript null
Null == [null |-> TRUE]

\* the values false, 0 and '' as payloads
JsFalse == [primitive |-> "false"]
JsZero == [primitive |-> "0"]
JsEmpty == [primitive |-> "''"]

\* the values that are falsy and can be stored as a payload
FalsyValues == {Null, JsFalse, JsZero, JsEmpty}

\* the key a request for (airport, date) has in the server cache
ServerKey(airport, date) ==
    generateKey("flightaware", << <<"airport", airport>>, <<"date", date>> >>)

\* the key a prediction for (airport, date) has in the client cache
ClientKey(airport, date) ==
    key("prediction", << <<"airport", airport>>, <<"date", date>> >>)

Airports == {Str("LIS"), Str("OPO")}
Dates == {Str("D1")}

ServerKeys == {ServerKey(a, d) : a \in Airports, d \in Dates}
ClientKeys == {ClientKey(a, d) : a \in Airports, d \in Dates}

\* the keys of fetchAirlineEnrichment and fetchAircraftEnrichment
EnrichmentKey(kind, code) == key(kind, << <<"code", code>> >>)

EnrichmentKinds == {"airline", "aircraft"}
Codes == {Str("TP")}
EnrichmentKeys == {EnrichmentKey(kind, code) : kind \in EnrichmentKinds, code \in Codes}

\* what /api/aviationstack answers with
EnrichmentData == {[name |-> "TAP"]}

\* clear() without a key: the parameter takes its default, null
NoKey == <<"#null">>

\* the empty string, as a key
EmptyKey == <<>>

\* if (key): null and the empty string are falsy
KeyGiven(k) == k # NoKey /\ k # EmptyKey

----------------------------------------------------------------------------
(* ApiCache: the server cache, a Map from key to {data, expiry} *)

\* Map.delete
MapDelete(map, k) == [x \in DOMAIN map \ {k} |-> map[x]]

\* Map.set
MapSet(map, k, v) == [x \in DOMAIN map \cup {k} |-> IF x = k THEN v ELSE map[x]]

EmptyMap == [x \in {} |-> Null]

\* a store whose entries never expire
ApiExpired_never(item, t) == FALSE

\* the expiry test of ApiCache.get and ApiCache.cleanup
ApiExpired(item, t) == t > item.expiry

\* a get that finds nothing
ApiCache_get_neverHits(cache, k, t) == [cache |-> cache, ret |-> Null]

\* a get whose hit starts the entry's time to live afresh
ApiCache_get_sliding(cache, k, t) ==
    IF k \notin DOMAIN cache THEN [cache |-> cache, ret |-> Null]
    ELSE IF ApiExpired(cache[k], t)
         THEN [cache |-> MapDelete(cache, k), ret |-> Null]
         ELSE [cache |-> [cache EXCEPT ![k].expiry = t + Ticks(30 * 60 * 1000)],
               ret |-> cache[k].data]

\* ApiCache.get: the store afterwards and the value returned
ApiCache_get(cache, k, t) ==
    IF k \notin DOMAIN cache THEN [cache |-> cache, ret |-> Null]
    ELSE IF ApiExpired(cache[k], t)
         THEN [cache |-> MapDelete(cache, k), ret |-> Null]
         ELSE [cache |-> cache, ret |-> cache[k].data]

\* ApiCache.set
ApiCache_set(cache, k, data, ttl, t) ==
    MapSet(cache, k, [data |-> data, expiry |-> t + ttl])

\* this.defaultTTL: 24 hours
defaultTTL == Ticks(24 * 60 * 60 * 1000)

\* a set without a ttl that takes the ttl of the predictions
ApiCache_set_default_halfHour(cache, k, data, t) ==
    ApiCache_set(cache, k, data, Ticks(30 * 60 * 1000), t)

\* ApiCache.set called without a ttl: ttl = this.defaultTTL
ApiCache_set_default(cache, k, data, t) == ApiCache_set(cache, k, data, defaultTTL, t)

\* ApiCache.has
ApiCache_has(cache, k, t) == ApiCache_get(cache, k, t).ret # Null

\* ApiCache.clear
ApiCache_clear(cache, k) ==
    IF KeyGiven(k) THEN MapDelete(cache, k) ELSE EmptyMap

\* ApiCache.cleanup
ApiCache_cleanup(cache, t) ==
    [x \in {y \in DOMAIN cache : ~ApiExpired(cache[y], t)} |-> cache[x]]

----------------------------------------------------------------------------
(* localStorage: a sequence of [key, val] in the order localStorage.key(i)    *)
(* enumerates them.  A value is the JSON text of an item or unparseable text. *)

\* JSON.stringify(item)
stringify(item) == [json |-> item]

\* a stored value JSON.parse throws on
Corrupt == [corrupt |-> TRUE]

\* whether JSON.parse(text) returns instead of throwing
Parses(text) == text # Corrupt

\* JSON.parse(text), for a text that parses
parse(text) == text.json

LsKeys(l) == {l[i].key : i \in DOMAIN l}

LsIndex(l, k) == CHOOSE i \in DOMAIN l : l[i].key = k

\* localStorage.getItem
getItem(l, k) == IF k \in LsKeys(l) THEN l[LsIndex(l, k)].val ELSE Null

\* localStorage.setItem: an existing key keeps its place in the enumeration,
\* a new key is enumerated last
setItem(l, k, text) ==
    IF k \in LsKeys(l)
    THEN [l EXCEPT ![LsIndex(l, k)] = [key |-> k, val |-> text]]
    ELSE Append(l, [key |-> k, val |-> text])

\* localStorage.removeItem
removeItem(l, k) == SelectSeq(l, LAMBDA e : e.key # k)

RECURSIVE RemoveAll(_, _)
\* a removal that stops after the first key
RemoveAll_firstOnly(l, keys) ==
    IF keys = <<>> THEN l ELSE removeItem(l, Head(keys))

\* keysToRemove.forEach(key => localStorage.removeItem(key))
RemoveAll(l, keys) ==
    IF keys = <<>> THEN l ELSE RemoveAll(removeItem(l, Head(keys)), Tail(keys))

\* key && key.startsWith(this.namespace)
InNamespace(k) == KeyGiven(k) /\ startsWith(k, namespace)

----------------------------------------------------------------------------
(* FrontendCache: memoryCache (a Map from key to {data, expiry, timestamp})   *)
(* and localStorage.  avail = FALSE: every access to localStorage throws.     *)
(* An operation yields the two stores afterwards, the value returned and      *)
(* threw: whether an exception leaves the block.                              *)

\* what a catch block makes of the try block's outcome
Caught(r) == [r EXCEPT !.threw = FALSE]

\* isValid with the expiry time itself still counted as valid
isValid_inclusive(item, t) == t <= item.expiry

\* FrontendCache.isValid
isValid(item, t) == t < item.expiry

\* a try block of get that returns the stored payload without copying the
\* entry into the memory store
get_try_noPromote(m, l, avail, k, t) ==
    IF ~avail THEN [mem |-> m, ls |-> l, ret |-> Null, threw |-> TRUE]
    ELSE LET stored == getItem(l, k)
         IN  IF stored = Null THEN [mem |-> m, ls |-> l, ret |-> Null, threw |-> FALSE]
             ELSE IF ~Parses(stored) THEN [mem |-> m, ls |-> l, ret |-> Null, threw |-> TRUE]
             ELSE IF isValid(parse(stored), t)
                  THEN [mem |-> m, ls |-> l, ret |-> parse(stored).data, threw |-> FALSE]
                  ELSE [mem |-> m, ls |-> removeItem(l, k), ret |-> Null, threw |-> FALSE]

\* the try block of FrontendCache.get
get_try(m, l, avail, k, t) ==
    IF ~avail THEN [mem |-> m, ls |-> l, ret |-> Null, threw |-> TRUE]
    ELSE LET stored == getItem(l, k)
         IN  IF stored = Null THEN [mem |-> m, ls |-> l, ret |-> Null, threw |-> FALSE]
             ELSE IF ~Parses(stored) THEN [mem |-> m, ls |-> l, ret |-> Null, threw |-> TRUE]
             ELSE IF isValid(parse(stored), t)
                  THEN [mem |-> MapSet(m, k, parse(stored)), ls |-> l,
                        ret |-> parse(stored).data, threw |-> FALSE]
                  ELSE [mem |-> m, ls |-> removeItem(l, k), ret |-> Null, threw |-> FALSE]

\* FrontendCache.get
FrontendCache_get(m, l, avail, k, t) ==
    IF k \in DOMAIN m /\ isValid(m[k], t)
    THEN [mem |-> m, ls |-> l, ret |-> m[k].data, threw |-> FALSE]
    ELSE Caught(get_try(MapDelete(m, k), l, avail, k, t))

RECURSIVE CleanupScan(_, _, _, _, _)
\* the for loop of FrontendCache.cleanup from index i on: the memory store
\* and keysToRemove when it ends, by running out of keys or by a throw
CleanupScan(m, l, i, keys, t) ==
    IF i > Len(l) THEN [mem |-> m, keys |-> keys, threw |-> FALSE]
    ELSE IF ~InNamespace(l[i].key) THEN CleanupScan(m, l, i + 1, keys, t)
    ELSE IF ~Parses(l[i].val) THEN [mem |-> m, keys |-> keys, threw |-> TRUE]
    ELSE IF t >= parse(l[i].val).expiry
         THEN CleanupScan(MapDelete(m, l[i].key), l, i + 1, Append(keys, l[i].key), t)
         ELSE CleanupScan(m, l, i + 1, keys, t)

\* the try block of FrontendCache.cleanup
cleanup_try(m, l, avail, t) ==
    IF ~avail THEN [mem |-> m, ls |-> l, threw |-> TRUE]
    ELSE LET scan == CleanupScan(m, l, 1, <<>>, t)
         IN  IF scan.threw THEN [mem |-> scan.mem, ls |-> l, threw |-> TRUE]
             ELSE [mem |-> scan.mem, ls |-> RemoveAll(l, scan.keys), threw |-> FALSE]

\* cleanup without its try/catch
cleanup_uncaught(m, l, avail, t) == cleanup_try(m, l, avail, t)

\* cleanup that removes the expired keys from localStorage only
cleanup_keepsMemory(m, l, avail, t) == [Caught(cleanup_try(m, l, avail, t)) EXCEPT !.mem = m]

\* FrontendCache.cleanup
FrontendCache_cleanup(m, l, avail, t) == Caught(cleanup_try(m, l, avail, t))

\* FrontendCache.set; fails: how many of its setItem calls throw for lack of
\* room (0: none, 1: the first, 2: the first and the retry).  An exception of
\* cleanup() leaves set, the catch block it is called in has no handler of
\* its own.
FrontendCache_set(m, l, avail, k, data, ttl, t, fails) ==
    LET item == [data |-> data, expiry |-> t + ttl, timestamp |-> t]
        m1 == MapSet(m, k, item)
        c == FrontendCache_cleanup(m1, l, avail, t)
    IN  IF avail /\ fails < 1
        THEN [mem |-> m1, ls |-> setItem(l, k, stringify(item)), threw |-> FALSE]
        ELSE IF c.threw THEN c
        ELSE IF avail /\ fails < 2
             THEN [mem |-> c.mem, ls |-> setItem(c.ls, k, stringify(item)), threw |-> FALSE]
             ELSE [mem |-> c.mem, ls |-> c.ls, threw |-> FALSE]

\* the default of the ttl parameter of FrontendCache.set: 30 minutes
FrontendCache_defaultTTL == Ticks(30 * 60 * 1000)

\* FrontendCache.set called without a ttl
FrontendCache_set_default(m, l, avail, k, data, t, fails) ==
    FrontendCache_set(m, l, avail, k, data, FrontendCache_defaultTTL, t, fails)

\* FrontendCache.clearLocalStorage
clearLocalStorage(l, avail) ==
    IF ~avail THEN l ELSE SelectSeq(l, LAMBDA e : ~InNamespace(e.key))

\* FrontendCache.clear
FrontendCache_clear(m, l, avail, k) ==
    IF KeyGiven(k)
    THEN [mem |-> MapDelete(m, k), ls |-> IF avail THEN removeItem(l, k) ELSE l,
          threw |-> FALSE]
    ELSE [mem |-> EmptyMap, ls |-> clearLocalStorage(l, avail), threw |-> FALSE]

RECURSIVE LoadScan(_, _, _, _)
\* a load that starts the ttl of every entry it loads afresh
LoadScan_rearms(m, l, i, t) ==
    IF i > Len(l) THEN [mem |-> m, ls |-> l, threw |-> FALSE]
    ELSE IF ~InNamespace(l[i].key) THEN LoadScan(m, l, i + 1, t)
    ELSE IF ~Parses(l[i].val) THEN [mem |-> m, ls |-> l, threw |-> TRUE]
    ELSE IF isValid(parse(l[i].val), t)
         THEN LoadScan(MapSet(m, l[i].key,
                              [parse(l[i].val) EXCEPT !.expiry =
                                  t + (parse(l[i].val).expiry - parse(l[i].val).timestamp)]),
                       l, i + 1, t)
         ELSE LoadScan(m, removeItem(l, l[i].key), i + 1, t)

\* the for loop of FrontendCache.loadFromLocalStorage from index i on, over
\* the live localStorage: a removal moves the later keys down one place
LoadScan(m, l, i, t) ==
    IF i > Len(l) THEN [mem |-> m, ls |-> l, threw |-> FALSE]
    ELSE IF ~InNamespace(l[i].key) THEN LoadScan(m, l, i + 1, t)
    ELSE IF ~Parses(l[i].val) THEN [mem |-> m, ls |-> l, threw |-> TRUE]
    ELSE IF isValid(parse(l[i].val), t)
         THEN LoadScan(MapSet(m, l[i].key, parse(l[i].val)), l, i + 1, t)
         ELSE LoadScan(m, removeItem(l, l[i].key), i + 1, t)

\* the try block of FrontendCache.loadFromLocalStorage
load_try(m, l, avail, t) ==
    IF ~avail THEN [mem |-> m, ls |-> l, threw |-> TRUE] ELSE LoadScan(m, l, 1, t)

\* FrontendCache.loadFromLocalStorage
loadFromLocalStorage(m, l, avail, t) == Caught(load_try(m, l, avail, t))

\* new FrontendCache('airportQueue')
FrontendCache_constructor(l, avail, t) == loadFromLocalStorage(EmptyMap, l, avail, t)

\* FrontendCache.getStats
getStats(m, l, avail) ==
    LET localStorageCount ==
            IF ~avail THEN 0 ELSE Cardinality({i \in DOMAIN l : InNamespace(l[i].key)})
    IN  [memorySize |-> Cardinality(DOMAIN m),
         localStorageSize |-> localStorageCount,
         totalSize |-> Cardinality(DOMAIN m) + localStorageCount]

----------------------------------------------------------------------------------------------------------------------------------------
(* The /api/predict handler and the page's fetchAndDisplayPrediction *)

\* the ttl of a flight prediction, in both tiers
PredictionTTL == Ticks(30 * 60 * 1000)

\* the period of the server's sweep timer
ServerSweepTicks == Ticks(60 * 60 * 1000)

\* the slots of requests under way: the page's own and another client's
Reqs == {"page", "other"}

\* a date string new Date(date + 'T00:00:00Z') makes an Invalid Date of
BadDate == Str("bad")

\* if (value): objects are truthy, null, false, 0 and '' are not
Truthy(v) == v \notin FalsyValues

\* response.ok
Ok(status) == status >= 200 /\ status <= 299

\* the body of a hit: { ...cachedData, cached: true, cacheTime }
HitBody(cachedData, t) == [cached |-> TRUE, cacheTime |-> t] @@ cachedData

\* the body sent when the provider fails
MockBody ==
    [arrivals |-> "none", departures |-> "none",
     warning |-> "Could not fetch real data", apiError |-> "fetchError.message"]

\* the body of an error response
ErrorBody(msg) == [error |-> msg]

\* a slot with no request in it
IdleReq ==
    [pc |-> "idle", method |-> "GET", airport |-> Undefined, date |-> Undefined,
     status |-> 0, body |-> Null,
     calls |-> 0, changed |-> FALSE, stored |-> FALSE, answered |-> TRUE]

\* a request on its way to the handler
NewReq(method, airport, date) ==
    [IdleReq EXCEPT !.pc = "sent", !.method = method, !.airport = airport,
                    !.date = date, !.answered = FALSE]

\* a handler that writes what it answers on a hit back into the store
handler_start_marksStore(q, cache, hasKey, t) ==
    LET cacheKey == ServerKey(q.airport, q.date)
        g == ApiCache_get(cache, cacheKey, t)
        respond(status, body) ==
            [cache |-> g.cache,
             req |-> [q EXCEPT !.pc = "done", !.status = status, !.body = body,
                               !.changed = (g.cache # cache)]]
    IN  IF q.method = "OPTIONS"
        THEN [cache |-> cache, req |-> [q EXCEPT !.pc = "done", !.status = 200]]
        ELSE IF Truthy(g.ret)
        THEN [cache |-> [g.cache EXCEPT ![cacheKey].data = HitBody(g.ret, t)],
              req |-> [q EXCEPT !.pc = "done", !.status = 200, !.body = HitBody(g.ret, t),
                                !.changed = TRUE]]
        ELSE IF q.airport = Undefined \/ q.date = Undefined
             THEN respond(400, ErrorBody("Missing required parameters: airport and date"))
        ELSE IF ~hasKey THEN respond(500, ErrorBody("API key not configured"))
        ELSE IF q.date = BadDate THEN respond(500, ErrorBody("Failed to fetch flight data"))
        ELSE [cache |-> g.cache,
              req |-> [q EXCEPT !.pc = "fetching", !.calls = 2,
                                !.changed = (g.cache # cache)]]

\* the handler from its entry to its first await (or to its return): the
\* store afterwards, the request afterwards.  calls counts the provider
\* fetches the request started, changed and stored record what it did to
\* the store.
handler_start(q, cache, hasKey, t) ==
    LET cacheKey == ServerKey(q.airport, q.date)
        g == ApiCache_get(cache, cacheKey, t)
        respond(status, body) ==
            [cache |-> g.cache,
             req |-> [q EXCEPT !.pc = "done", !.status = status, !.body = body,
                               !.changed = (g.cache # cache)]]
    IN  IF q.method = "OPTIONS"
        THEN [cache |-> cache, req |-> [q EXCEPT !.pc = "done", !.status = 200]]
        ELSE IF Truthy(g.ret) THEN respond(200, HitBody(g.ret, t))
        ELSE IF q.airport = Undefined \/ q.date = Undefined
             THEN respond(400, ErrorBody("Missing required parameters: airport and date"))
        ELSE IF ~hasKey THEN respond(500, ErrorBody("API key not configured"))
        ELSE IF q.date = BadDate THEN respond(500, ErrorBody("Failed to fetch flight data"))
        ELSE [cache |-> g.cache,
              req |-> [q EXCEPT !.pc = "fetching", !.calls = 2,
                                !.changed = (g.cache # cache)]]

\* a handler that stores what it answers when the provider fails
handler_resume_storesMock(q, arr, dep, cache, t) ==
    IF arr = "fail" \/ dep = "fail"
    THEN [cache |-> ApiCache_set(cache, ServerKey(q.airport, q.date), MockBody, PredictionTTL, t),
          req |-> [q EXCEPT !.pc = "done", !.status = 200, !.body = MockBody]]
    ELSE [cache |-> cache,
          req |-> [q EXCEPT !.pc = "done", !.status = 500,
                            !.body = ErrorBody("Failed to fetch flight data")]]

\* a handler that leaves the entry of an earlier request in place
handler_resume_keepsFirst(q, arr, dep, cache, t) ==
    LET cacheKey == ServerKey(q.airport, q.date)
        analysis == analyzeFlights(arr, dep)
    IN  IF arr = "fail" \/ dep = "fail"
        THEN [cache |-> cache,
              req |-> [q EXCEPT !.pc = "done", !.status = 200, !.body = MockBody]]
        ELSE IF arr = "junk" \/ dep = "junk"
        THEN [cache |-> cache,
              req |-> [q EXCEPT !.pc = "done", !.status = 500,
                                !.body = ErrorBody("Failed to fetch flight data")]]
        ELSE [cache |-> IF cacheKey \in DOMAIN cache THEN cache
                        ELSE ApiCache_set(cache, cacheKey, analysis, PredictionTTL, t),
              req |-> [q EXCEPT !.pc = "done", !.status = 200, !.body = analysis,
                                !.changed = TRUE, !.stored = TRUE]]

\* the handler from the await of Promise.all to its return.  arr and dep
\* are what fetchFlightAwareData ended with on each side: the flights,
\* flights the analysis throws on ("junk"), or an exception ("fail")
handler_resume(q, arr, dep, cache, t) ==
    LET cacheKey == ServerKey(q.airport, q.date)
        analysis == analyzeFlights(arr, dep)
    IN  IF arr = "fail" \/ dep = "fail"
        THEN [cache |-> cache,
              req |-> [q EXCEPT !.pc = "done", !.status = 200, !.body = MockBody]]
        ELSE IF arr = "junk" \/ dep = "junk"
        THEN [cache |-> cache,
              req |-> [q EXCEPT !.pc = "done", !.status = 500,
                                !.body = ErrorBody("Failed to fetch flight data")]]
        ELSE [cache |-> ApiCache_set(cache, cacheKey, analysis, PredictionTTL, t),
              req |-> [q EXCEPT !.pc = "done", !.status = 200, !.body = analysis,
                                !.changed = TRUE, !.stored = TRUE]]

\* no fetchAndDisplayPrediction under way
\* (requests counts the calls of fetch it made)
IdleFlow == [pc |-> "idle", airport |-> Undefined, date |-> Undefined, requests |-> 0]

\* the ttl of the enrichment entries: 7 days
EnrichmentTTL == Ticks(7 * 24 * 60 * 60 * 1000)

\* fetchAirlineEnrichment / fetchAircraftEnrichment (kind tells which) up to
\* the await of fetch or to the return: memo is enrichmentCache, fetch tells
\* whether the request is made
enrichment_start(memo, m, l, avail, kind, code, t) ==
    LET g == FrontendCache_get(m, l, avail, EnrichmentKey(kind, code), t)
    IN  IF <<kind, code>> \in DOMAIN memo
        THEN [memo |-> memo, mem |-> m, ls |-> l, fetch |-> FALSE]
        ELSE IF Truthy(g.ret)
        THEN [memo |-> MapSet(memo, <<kind, code>>, g.ret), mem |-> g.mem, ls |-> g.ls,
              fetch |-> FALSE]
        ELSE [memo |-> memo, mem |-> g.mem, ls |-> g.ls, fetch |-> TRUE]

\* an enrichment lookup that caches for the time the predictions are cached
enrichment_resume_halfHour(memo, m, l, avail, kind, code, ok, data, t, fails) ==
    IF ~ok THEN [memo |-> memo, mem |-> m, ls |-> l, stored |-> FALSE, ret |-> Null]
    ELSE [memo |-> MapSet(memo, <<kind, code>>, data),
          mem |-> FrontendCache_set(m, l, avail, EnrichmentKey(kind, code), data,
                                    PredictionTTL, t, fails).mem,
          ls |-> FrontendCache_set(m, l, avail, EnrichmentKey(kind, code), data,
                                   PredictionTTL, t, fails).ls,
          stored |-> TRUE, ret |-> data]

\* an enrichment lookup that also caches what it answers on a failure
enrichment_resume_cachesFailure(memo, m, l, avail, kind, code, ok, data, t, fails) ==
    LET s == FrontendCache_set(m, l, avail, EnrichmentKey(kind, code), data,
                               EnrichmentTTL, t, fails)
    IN  IF ~ok THEN [memo |-> MapSet(memo, <<kind, code>>, Null), mem |-> m, ls |-> l,
                     stored |-> FALSE, ret |-> Null]
        ELSE [memo |-> MapSet(memo, <<kind, code>>, data), mem |-> s.mem, ls |-> s.ls,
              stored |-> TRUE, ret |-> data]

\* fetchAirlineEnrichment / fetchAircraftEnrichment from the response on;
\* ok = FALSE: the response is not ok or fetch rejected
enrichment_resume(memo, m, l, avail, kind, code, ok, data, t, fails) ==
    LET s == FrontendCache_set(m, l, avail, EnrichmentKey(kind, code), data,
                               EnrichmentTTL, t, fails)
    IN  IF ~ok THEN [memo |-> memo, mem |-> m, ls |-> l, stored |-> FALSE, ret |-> Null]
        ELSE [memo |-> MapSet(memo, <<kind, code>>, data), mem |-> s.mem, ls |-> s.ls,
              stored |-> TRUE, ret |-> data]

----------------------------------------------------------------------------
(* fetchFlightAwareData: the pages of one flight list *)

\* const maxPages = 10
maxPages == 10

\* a || b, a being an array or undefined
JsOr(a, b) == IF a = Undefined THEN b ELSE a

\* the cursor of a next link
Cursor1 == [primitive |-> "c1"]

\* data.links?.next is missing
NoNext == [next |-> "none"]

\* the values of data.links.next: a link URL makes an exception of or not,
\* with the cursor parameter it has (null: none)
NextLinks ==
    {NoNext} \cup {[next |-> "url", parses |-> ps, cursor |-> c] :
                     ps \in BOOLEAN, c \in {Null, JsEmpty, Cursor1}}

\* the cursor the loop takes from a page
cursorOf(next) ==
    IF next = NoNext THEN Null
    ELSE IF ~next.parses THEN Null
    ELSE next.cursor

\* the bodies of the provider's pages
PageData ==
    {[arrivals |-> <<"f1">>, departures |-> Undefined, flights |-> Undefined],
     [arrivals |-> Undefined, departures |-> Undefined, flights |-> <<"f2">>],
     [arrivals |-> Undefined, departures |-> Undefined, flights |-> Undefined]}

\* the provider's responses
Responses ==
    {[ok |-> ok, data |-> data, next |-> next] :
        ok \in BOOLEAN, data \in PageData, next \in NextLinks}

\* const pageFlights = data.arrivals || data.departures || data.flights || []
pageFlights(data) == JsOr(JsOr(JsOr(data.arrivals, data.departures), data.flights), <<>>)

\* no call of fetchFlightAwareData under way.  sent counts the requests,
\* received lists the bodies of the pages that came, result is what the
\* call returned
IdlePager ==
    [pc |-> "idle", allFlights |-> <<>>, cursor |-> Null, pageCount |-> 0,
     sent |-> 0, received |-> <<>>, result |-> Undefined]

\* fetchFlightAwareData to its first await of fetch
fetchFlightAwareData_start == [IdlePager EXCEPT !.pc = "waiting", !.sent = 1]

\* a loop that goes on for as long as there is a cursor
fetchFlightAwareData_resume_unbounded(p, response) ==
    LET all == p.allFlights \o pageFlights(response.data)
        c == cursorOf(response.next)
    IN  IF ~response.ok THEN [p EXCEPT !.pc = "raised"]
        ELSE IF Truthy(c)
        THEN [p EXCEPT !.allFlights = all, !.cursor = c, !.pageCount = @ + 1,
                       !.sent = @ + 1, !.received = Append(@, response.data)]
        ELSE [p EXCEPT !.pc = "returned", !.allFlights = all, !.cursor = c,
                       !.pageCount = @ + 1, !.received = Append(@, response.data),
                       !.result = all]

\* fetchFlightAwareData from a response on, to the next await of fetch, to
\* the return or to the throw
fetchFlightAwareData_resume(p, response) ==
    LET all == p.allFlights \o pageFlights(response.data)
        c == cursorOf(response.next)
    IN  IF ~response.ok THEN [p EXCEPT !.pc = "raised"]
        ELSE IF Truthy(c) /\ p.pageCount + 1 < maxPages
        THEN [p EXCEPT !.allFlights = all, !.cursor = c, !.pageCount = @ + 1,
                       !.sent = @ + 1, !.received = Append(@, response.data)]
        ELSE [p EXCEPT !.pc = "returned", !.allFlights = all, !.cursor = c,
                       !.pageCount = @ + 1, !.received = Append(@, response.data),
                       !.result = all]

----------------------------------------------------------------------------
(* State *)

VARIABLES
    now,          \* Date.now(), in ticks
    srv,          \* apiCache.cache: the server store
    mem,          \* frontendCache.memoryCache
    ls,           \* the browser's localStorage
    lsAvailable,  \* FALSE: every access to localStorage throws
    apiKey,       \* whether process.env.FLIGHTAWARE_API_KEY is set
    sreq,         \* the requests to /api/predict, per request slot
    flow,         \* the page's fetchAndDisplayPrediction call
    page,         \* "loading" until DOMContentLoaded, then "ready"
    lastSet,      \* per key, the latest set() not followed by a clear of the key
    ret,          \* the latest operation and what it returned
    call,         \* the key builders called on their own: arguments and results
    enrichmentCache,  \* the page's enrichmentCache: (kind, code) to data
    lookups,      \* the (kind, code) an enrichment fetch is under way for
    pager         \* a call of fetchFlightAwareData: its locals and what it did

vars == <<now, srv, mem, ls, lsAvailable, apiKey, sreq, flow, page, lastSet, ret, call,
          enrichmentCache, lookups, pager>>

serverVars == <<srv>>
clientVars == <<mem, ls>>
appVars == <<apiKey, sreq, flow, page>>
enrichVars == <<enrichmentCache, lookups>>

AllKeys == ServerKeys \cup ClientKeys \cup EnrichmentKeys

NoSet == [none |-> TRUE]

\* the record of a set(k, data, ttl) made at time t, expiry being t + ttl; saved: the entry reached
\* the persistent layer (always, for the server tier, which has none); here:
\* the set was made in the current lifetime of the page or process
SetRecord(data, ttl, t, saved) ==
    [data |-> data, expiry |-> t + ttl, saved |-> saved, here |-> TRUE]

Observe(op, k, val, raised) == [op |-> op, key |-> k, val |-> val, raised |-> raised]

\* no key builder called on its own
NoCall == [none |-> TRUE]

Init ==
    /\ now = 0
    /\ srv = EmptyMap
    /\ mem = EmptyMap
    /\ ls = <<>>
    /\ lsAvailable \in BOOLEAN
    /\ apiKey \in BOOLEAN
    /\ sreq = [r \in Reqs |-> IdleReq]
    /\ flow = IdleFlow
    /\ page = "loading"
    /\ lastSet = [k \in AllKeys |-> NoSet]
    /\ ret = Observe("init", NoKey, Null, FALSE)
    /\ call = NoCall
    /\ enrichmentCache = EmptyMap
    /\ lookups = {}
    /\ pager = IdlePager

\* time passes
Tick ==
    /\ now < MaxTime
    /\ now' = now + 1
    /\ ret' = Observe("tick", NoKey, Null, FALSE)
    /\ UNCHANGED <<call, enrichVars, pager, srv, mem, ls, lsAvailable, appVars, lastSet>>

----------------
(* The server cache called directly *)

ApiGet(k) ==
    LET r == ApiCache_get(srv, k, now)
    IN  /\ srv' = r.cache
        /\ ret' = Observe("get", k, r.ret, FALSE)
        /\ UNCHANGED <<call, enrichVars, pager, now, lastSet, clientVars, lsAvailable, appVars>>

ApiSet(k, data, ttl) ==
    /\ srv' = ApiCache_set(srv, k, data, ttl, now)
    /\ lastSet' = [lastSet EXCEPT ![k] = SetRecord(data, ttl, now, TRUE)]
    /\ ret' = Observe("set", k, Null, FALSE)
    /\ UNCHANGED <<call, enrichVars, pager, now, clientVars, lsAvailable, appVars>>

ApiSetDefault(k, data) ==
    /\ srv' = ApiCache_set_default(srv, k, data, now)
    /\ lastSet' = [lastSet EXCEPT ![k] = SetRecord(data, defaultTTL, now, TRUE)]
    /\ ret' = Observe("set without ttl", k, Null, FALSE)
    /\ UNCHANGED <<call, enrichVars, pager, now, clientVars, lsAvailable, appVars>>

ApiHas(k) ==
    /\ srv' = ApiCache_get(srv, k, now).cache
    /\ ret' = Observe("has", k, [bool |-> ApiCache_has(srv, k, now)], FALSE)
    /\ UNCHANGED <<call, enrichVars, pager, now, lastSet, clientVars, lsAvailable, appVars>>

ApiClear(k) ==
    /\ srv' = ApiCache_clear(srv, k)
    /\ lastSet' = [x \in AllKeys |->
                     IF x \in ServerKeys /\ (~KeyGiven(k) \/ x = k) THEN NoSet ELSE lastSet[x]]
    /\ ret' = Observe("clear", k, Null, FALSE)
    /\ UNCHANGED <<call, enrichVars, pager, now, clientVars, lsAvailable, appVars>>

ApiCleanup ==
    /\ srv' = ApiCache_cleanup(srv, now)
    /\ ret' = Observe("cleanup", NoKey, Null, FALSE)
    /\ UNCHANGED <<call, enrichVars, pager, now, lastSet, clientVars, lsAvailable, appVars>>

NextServer ==
    \/ Tick
    \/ \E k \in ServerKeys : ApiGet(k)
    \/ \E k \in ServerKeys, data \in Payloads \cup FalsyValues, ttl \in TTLs :
          ApiSet(k, data, ttl)
    \/ \E k \in ServerKeys : ApiHas(k)
    \/ \E k \in ServerKeys \cup {NoKey, EmptyKey} : ApiClear(k)
    \/ ApiCleanup

\* the server cache under any sequence of its operations
SpecServer == Init /\ [][NextServer]_vars

----------------------------------------------------------------------------------------------------------------------------------------
(* The client cache called directly *)

FrontGet(k) ==
    LET r == FrontendCache_get(mem, ls, lsAvailable, k, now)
    IN  /\ mem' = r.mem
        /\ ls' = r.ls
        /\ ret' = Observe("get", k, r.ret, r.threw)
        /\ UNCHANGED <<call, enrichVars, pager, now, srv, lsAvailable, appVars, lastSet>>

FrontSet(k, data, ttl, fails) ==
    LET r == FrontendCache_set(mem, ls, lsAvailable, k, data, ttl, now, fails)
        saved == lsAvailable /\ fails < 2 /\ ~r.threw
    IN  /\ mem' = r.mem
        /\ ls' = r.ls
        /\ lastSet' = [lastSet EXCEPT ![k] = SetRecord(data, ttl, now, saved)]
        /\ ret' = Observe("set", k, Null, r.threw)
        /\ UNCHANGED <<call, enrichVars, pager, now, srv, lsAvailable, appVars>>

FrontSetDefault(k, data, fails) ==
    LET r == FrontendCache_set_default(mem, ls, lsAvailable, k, data, now, fails)
        saved == lsAvailable /\ fails < 2 /\ ~r.threw
    IN  /\ mem' = r.mem
        /\ ls' = r.ls
        /\ lastSet' = [lastSet EXCEPT ![k] =
                         SetRecord(data, FrontendCache_defaultTTL, now, saved)]
        /\ ret' = Observe("set without ttl", k, Null, r.threw)
        /\ UNCHANGED <<call, enrichVars, pager, now, srv, lsAvailable, appVars>>

FrontClear(k) ==
    LET r == FrontendCache_clear(mem, ls, lsAvailable, k)
    IN  /\ mem' = r.mem
        /\ ls' = r.ls
        /\ lastSet' = [x \in AllKeys |->
                         IF x \in ClientKeys \cup EnrichmentKeys /\ (~KeyGiven(k) \/ x = k)
                         THEN NoSet ELSE lastSet[x]]
        /\ ret' = Observe("clear", k, Null, r.threw)
        /\ UNCHANGED <<call, enrichVars, pager, now, srv, lsAvailable, appVars>>

FrontCleanup ==
    LET r == FrontendCache_cleanup(mem, ls, lsAvailable, now)
    IN  /\ mem' = r.mem
        /\ ls' = r.ls
        /\ ret' = Observe("cleanup", NoKey, Null, r.threw)
        /\ UNCHANGED <<call, enrichVars, pager, now, srv, lsAvailable, appVars, lastSet>>

FrontStats ==
    /\ ret' = Observe("getStats", NoKey, getStats(mem, ls, lsAvailable), FALSE)
    /\ UNCHANGED <<call, enrichVars, pager, now, srv, mem, ls, lsAvailable, appVars, lastSet>>

\* the page is loaded again: the memory store is lost, a new FrontendCache
\* is constructed over the localStorage left behind
Reload ==
    LET r == FrontendCache_constructor(ls, lsAvailable, now)
    IN  /\ mem' = r.mem
        /\ ls' = r.ls
        /\ lastSet' = [x \in AllKeys |->
                         IF x \in ClientKeys /\ lastSet[x] # NoSet
                         THEN [lastSet[x] EXCEPT !.here = FALSE] ELSE lastSet[x]]
        /\ ret' = Observe("constructor", NoKey, Null, r.threw)
        /\ UNCHANGED <<call, enrichVars, pager, now, srv, lsAvailable, appVars>>

\* the keys the direct calls of the client cache use
FrontKeys == {ClientKey(Str("LIS"), Str("D1"))}

NextClient ==
    \/ Tick
    \/ \E k \in FrontKeys : FrontGet(k)
    \/ \E k \in FrontKeys, data \in Payloads, ttl \in TTLs, fails \in 0..2 :
          FrontSet(k, data, ttl, fails)
    \/ \E k \in FrontKeys \cup {NoKey, EmptyKey} : FrontClear(k)
    \/ FrontCleanup
    \/ FrontStats
    \/ Reload

\* the client cache under any sequence of its operations
SpecClient == Init /\ [][NextClient]_vars

----------------------------------------------------------------------------
(* The application: the page, the backend and the flight-data provider *)

\* DOMContentLoaded: frontendCache.cleanup() and getStats()
PageReady ==
    LET r == FrontendCache_cleanup(mem, ls, lsAvailable, now)
    IN  /\ page = "loading"
        /\ page' = "ready"
        /\ mem' = r.mem
        /\ ls' = r.ls
        /\ UNCHANGED <<call, enrichVars, pager, now, srv, lsAvailable, apiKey, sreq, flow, lastSet, ret>>

\* the user loads the page again: the script runs from the top, a response
\* still under way finds nobody
PageReload ==
    LET r == FrontendCache_constructor(ls, lsAvailable, now)
    IN  /\ page = "ready"
        /\ page' = "loading"
        /\ mem' = r.mem
        /\ ls' = r.ls
        /\ flow' = IdleFlow
        /\ sreq' = [sreq EXCEPT !["page"].answered = TRUE]
        /\ enrichmentCache' = EmptyMap
        /\ lookups' = {}
        /\ lastSet' = [x \in AllKeys |->
                         IF x \in ClientKeys \cup EnrichmentKeys /\ lastSet[x] # NoSet
                         THEN [lastSet[x] EXCEPT !.here = FALSE] ELSE lastSet[x]]
        /\ UNCHANGED <<call, pager, now, srv, lsAvailable, apiKey, ret>>

\* fetchAndDisplayPrediction up to its await of fetch (or to its return on a hit)
FlowStart(airport, date) ==
    LET g == FrontendCache_get(mem, ls, lsAvailable, ClientKey(airport, date), now)
    IN  /\ page = "ready"
        /\ flow.pc = "idle"
        /\ mem' = g.mem
        /\ ls' = g.ls
        /\ IF Truthy(g.ret)
           THEN /\ flow' = [pc |-> "done", airport |-> airport, date |-> date, requests |-> 0]
                /\ sreq' = sreq
           ELSE /\ sreq["page"].pc = "idle"
                /\ flow' = [pc |-> "waiting", airport |-> airport, date |-> date, requests |-> 1]
                /\ sreq' = [sreq EXCEPT !["page"] = NewReq("GET", airport, date)]
        /\ UNCHANGED <<call, enrichVars, pager, now, srv, lsAvailable, apiKey, page, lastSet, ret>>

\* fetchAndDisplayPrediction from the response on: a response that is not
\* ok is thrown and shown as an error, any other is cached and shown
FlowReceive(fails) ==
    LET q == sreq["page"]
        k == ClientKey(flow.airport, flow.date)
        r == FrontendCache_set(mem, ls, lsAvailable, k, q.body, PredictionTTL, now, fails)
    IN  /\ flow.pc = "waiting"
        /\ q.pc = "done" /\ ~q.answered
        /\ flow' = [flow EXCEPT !.pc = "done"]
        /\ sreq' = [sreq EXCEPT !["page"] = IdleReq]
        /\ IF Ok(q.status)
           THEN /\ mem' = r.mem
                /\ ls' = r.ls
                /\ lastSet' = [lastSet EXCEPT ![k] =
                                 SetRecord(q.body, PredictionTTL, now, lsAvailable /\ fails < 2)]
           ELSE UNCHANGED <<mem, ls, lastSet>>
        /\ UNCHANGED <<call, enrichVars, pager, now, srv, lsAvailable, apiKey, page, ret>>

\* fetch rejects (no network): the error is shown, nothing is cached
FlowNetworkError ==
    /\ flow.pc = "waiting"
    /\ flow' = [flow EXCEPT !.pc = "done"]
    /\ sreq' = [sreq EXCEPT !["page"].answered = TRUE]
    /\ UNCHANGED <<call, enrichVars, pager, now, srv, mem, ls, lsAvailable, apiKey, page, lastSet, ret>>

\* the result is on the screen; the user may ask again
FlowDone ==
    /\ flow.pc = "done"
    /\ flow' = IdleFlow
    /\ UNCHANGED <<call, enrichVars, pager, now, srv, mem, ls, lsAvailable, apiKey, sreq, page, lastSet, ret>>

\* another client's request arrives and the handler runs up to its first
\* await (or to its return)
DirectRequest(method, airport, date) ==
    LET h == handler_start(NewReq(method, airport, date), srv, apiKey, now)
    IN  /\ sreq["other"].pc = "idle"
        /\ srv' = h.cache
        /\ sreq' = [sreq EXCEPT !["other"] = h.req]
        /\ UNCHANGED <<call, enrichVars, pager, now, mem, ls, lsAvailable, apiKey, flow, page, lastSet, ret>>

\* a response nobody on the page waits for has arrived
ResponseTaken(r) ==
    /\ sreq[r].pc = "done"
    /\ r = "page" => sreq[r].answered
    /\ sreq' = [sreq EXCEPT ![r] = IdleReq]
    /\ UNCHANGED <<call, enrichVars, pager, now, srv, mem, ls, lsAvailable, apiKey, flow, page, lastSet, ret>>

\* the page's request arrives and the handler runs up to its first await
HandlerStart ==
    LET h == handler_start(sreq["page"], srv, apiKey, now)
    IN  /\ sreq["page"].pc = "sent"
        /\ srv' = h.cache
        /\ sreq' = [sreq EXCEPT !["page"] = h.req]
        /\ UNCHANGED <<call, enrichVars, pager, now, mem, ls, lsAvailable, apiKey, flow, page, lastSet, ret>>

\* Promise.all settles and the handler runs to its return
HandlerResume(r, arr, dep) ==
    LET h == handler_resume(sreq[r], arr, dep, srv, now)
        k == ServerKey(sreq[r].airport, sreq[r].date)
    IN  /\ sreq[r].pc = "fetching"
        /\ srv' = h.cache
        /\ sreq' = [sreq EXCEPT ![r] = h.req]
        /\ lastSet' = IF h.req.stored
                      THEN [lastSet EXCEPT ![k] = SetRecord(h.req.body, PredictionTTL, now, TRUE)]
                      ELSE lastSet
        /\ UNCHANGED <<call, enrichVars, pager, now, mem, ls, lsAvailable, apiKey, flow, page, ret>>

\* the server's hourly setInterval callback
ServerSweep ==
    /\ now > 0 /\ now % ServerSweepTicks = 0
    /\ srv' = ApiCache_cleanup(srv, now)
    /\ UNCHANGED <<call, enrichVars, pager, now, mem, ls, lsAvailable, appVars, lastSet, ret>>

\* the page's setInterval callback, every 10 minutes
ClientSweep ==
    LET r == FrontendCache_cleanup(mem, ls, lsAvailable, now)
    IN  /\ page = "ready"
        /\ mem' = r.mem
        /\ ls' = r.ls
        /\ UNCHANGED <<call, enrichVars, pager, now, srv, lsAvailable, appVars, lastSet, ret>>

\* the airports asked for while the application runs
AppAirports == {Str("LIS")}

\* the arrivals the provider has while the application runs
AppArrivals == {"a1"}

Next ==
    \/ Tick
    \/ PageReady
    \/ PageReload
    \/ \E a \in AppAirports, d \in Dates : FlowStart(a, d)
    \/ \E fails \in 0..2 : FlowReceive(fails)
    \/ FlowNetworkError
    \/ FlowDone
    \/ \E a \in AppAirports \cup {Undefined}, d \in Dates \cup {Undefined, BadDate} :
          DirectRequest("GET", a, d)
    \/ DirectRequest("OPTIONS", Undefined, Undefined)
    \/ \E r \in Reqs : ResponseTaken(r)
    \/ HandlerStart
    \/ \E r \in Reqs, arr \in AppArrivals \cup {"fail", "junk"}, dep \in DeparturesData \cup {"fail"} :
          HandlerResume(r, arr, dep)
    \/ ServerSweep
    \/ ClientSweep

\* the page, the backend and the provider running together
Spec == Init /\ [][Next]_vars

----------------------------------------------------------------------------
(* The call sites that fetch with the cache: the handler, the page's         *)
(* prediction and the page's enrichment lookups                              *)

\* a tooltip asks for the enrichment of a code: the lookup runs up to its
\* await of fetch (or to its return); one lookup per code is under way at
\* a time
EnrichStart(kind, code) ==
    LET r == enrichment_start(enrichmentCache, mem, ls, lsAvailable, kind, code, now)
    IN  /\ page = "ready"
        /\ <<kind, code>> \notin lookups
        /\ enrichmentCache' = r.memo
        /\ mem' = r.mem
        /\ ls' = r.ls
        /\ lookups' = IF r.fetch THEN lookups \cup {<<kind, code>>} ELSE lookups
        /\ UNCHANGED <<call, pager, now, srv, lsAvailable, appVars, lastSet, ret>>

\* the response of /api/aviationstack arrives and the lookup runs to its return
EnrichReceive(kind, code, ok, data, fails) ==
    LET r == enrichment_resume(enrichmentCache, mem, ls, lsAvailable, kind, code, ok, data,
                               now, fails)
    IN  /\ <<kind, code>> \in lookups
        /\ lookups' = lookups \ {<<kind, code>>}
        /\ enrichmentCache' = r.memo
        /\ mem' = r.mem
        /\ ls' = r.ls
        /\ lastSet' = IF r.stored
                      THEN [lastSet EXCEPT ![EnrichmentKey(kind, code)] =
                              SetRecord(data, EnrichmentTTL, now, lsAvailable /\ fails < 2)]
                      ELSE lastSet
        /\ ret' = Observe(IF ok THEN "enrichment" ELSE "enrichment failed",
                          EnrichmentKey(kind, code), r.ret, FALSE)
        /\ UNCHANGED <<call, pager, now, srv, lsAvailable, appVars>>

NextSites ==
    \/ Tick
    \/ PageReady
    \/ \E a \in AppAirports, d \in Dates : FlowStart(a, d)
    \/ \E fails \in 0..2 : FlowReceive(fails)
    \/ FlowDone
    \/ HandlerStart
    \/ \E arr \in AppArrivals \cup {"fail"}, dep \in DeparturesData :
          HandlerResume("page", arr, dep)
    \/ \E kind \in EnrichmentKinds, code \in Codes : EnrichStart(kind, code)
    \/ \E kind \in EnrichmentKinds, code \in Codes, ok \in BOOLEAN,
           data \in EnrichmentData, fails \in 0..2 :
          EnrichReceive(kind, code, ok, data, fails)

\* the page, in one lifetime, with its prediction and enrichment lookups, and
\* the backend
SpecSites == Init /\ [][NextSites]_vars

\* README, Manual Cache Clear: frontendCache.clear() from the console of the
\* page
ManualClear == page = "ready" /\ FrontClear(NoKey)

NextClear ==
    \/ Tick
    \/ PageReady
    \/ \E a \in AppAirports, d \in Dates : FlowStart(a, d)
    \/ FlowReceive(0)
    \/ FlowDone
    \/ HandlerStart
    \/ \E arr \in AppArrivals, dep \in DeparturesData : HandlerResume("page", arr, dep)
    \/ \E kind \in EnrichmentKinds, code \in Codes : EnrichStart(kind, code)
    \/ \E kind \in EnrichmentKinds, code \in Codes, ok \in BOOLEAN, data \in EnrichmentData :
          EnrichReceive(kind, code, ok, data, 0)
    \/ ManualClear

\* the page, in one lifetime, with its lookups and a cache cleared by hand
SpecClear == Init /\ [][NextClear]_vars

----------------------------------------------------------------------------
(* The handler under requests of any client: req.query holds the strings     *)
(* the client wrote, or lacks a parameter                                     *)

\* the airports a query string names: one the provider knows, and the text
\* "undefined"
QueryAirports == {Str("LIS"), Str("undefined")}

NextHandler ==
    \/ Tick
    \/ \E a \in QueryAirports \cup {Undefined}, d \in Dates \cup {Undefined} :
          DirectRequest("GET", a, d)
    \/ \E arr \in AppArrivals \cup {"fail"}, dep \in DeparturesData :
          HandlerResume("other", arr, dep)
    \/ ResponseTaken("other")
    \/ ServerSweep

\* the backend under the requests of any client
SpecHandler == Init /\ [][NextHandler]_vars

----------------------------------------------------------------------------
(* The page and the backend over a provider whose data change with time      *)

\* the arrivals the provider has at each time: told apart, so that a
\* prediction shows when it was fetched
ProviderVersions == <<"at0", "at1", "at2", "at3", "at4", "at5">>

ArrivalsAt(t) == ProviderVersions[t + 1]

\* the time at which the flights of a prediction were fetched
FetchedAt(data) == CHOOSE t \in 0..MaxTime : ArrivalsAt(t) = data.arrivals

\* the time at which the handler sent a prediction: cacheTime on a hit, the
\* time of the fetch on a miss
RespondedAt(data) ==
    IF "cacheTime" \in DOMAIN data THEN data.cacheTime ELSE FetchedAt(data)

NextStale ==
    \/ Tick
    \/ PageReady
    \/ \E a \in AppAirports, d \in Dates : FlowStart(a, d)
    \/ \E fails \in 0..2 : FlowReceive(fails)
    \/ FlowDone
    \/ HandlerStart
    \/ \E dep \in DeparturesData : HandlerResume("page", ArrivalsAt(now), dep)

\* the page and the backend while the provider's data change
SpecStale == Init /\ [][NextStale]_vars

----------------------------------------------------------------------------
(* One call of fetchFlightAwareData and the provider's responses *)

\* the handler calls fetchFlightAwareData
PagerCall ==
    /\ pager.pc = "idle"
    /\ pager' = fetchFlightAwareData_start
    /\ UNCHANGED <<call, enrichVars, now, srv, mem, ls, lsAvailable, appVars, lastSet, ret>>

\* the provider's response to the request under way arrives
PagerResponse(response) ==
    /\ pager.pc = "waiting"
    /\ pager' = fetchFlightAwareData_resume(pager, response)
    /\ UNCHANGED <<call, enrichVars, now, srv, mem, ls, lsAvailable, appVars, lastSet, ret>>

\* some response arrives
PagerAnswered == \E response \in Responses : PagerResponse(response)

NextPager ==
    \/ PagerCall
    \/ PagerAnswered

\* the handler has the API key when it calls fetchFlightAwareData
InitPager == Init /\ lsAvailable /\ apiKey

\* one call of fetchFlightAwareData, the provider answering every request
SpecPager == InitPager /\ [][NextPager]_vars /\ WF_vars(PagerCall) /\ WF_vars(PagerAnswered)

----------------------------------------------------------------------------
(* The client cache over a localStorage that other lifetimes of the page and *)
(* other scripts of the origin have written                                   *)

\* the most entries localStorage holds when the page is opened
MaxEntries == 2

\* a cache of the same class made for the namespace 'airportQueue2'
NeighbourNamespace == namespace \o Str("2")

\* the keys found in localStorage: two of this cache, one of the neighbour
\* cache, one of another script
StorageKeys ==
    {ClientKey(a, d) : a \in Airports, d \in Dates}
    \cup {NeighbourNamespace \o Str(":") \o Str("prediction") \o Str(":")}
    \cup {Str("theme")}

\* the values found under them: an item written by set() in an earlier
\* lifetime, expired by now or not, or a text that is no JSON
StorageValues ==
    {stringify([data |-> analyzeFlights("a1", "d1"), expiry |-> e, timestamp |-> 0]) :
        e \in {0, MaxTTL}}
    \cup {Corrupt}

\* the contents of localStorage when the page is opened
StorageContents ==
    {l \in UNION {[1..n -> [key : StorageKeys, val : StorageValues]] : n \in 0..MaxEntries} :
        \A i \in DOMAIN l, j \in DOMAIN l : i # j => l[i].key # l[j].key}

\* the script has not run yet
InitStorage ==
    /\ now = 0
    /\ srv = EmptyMap
    /\ mem = EmptyMap
    /\ ls \in StorageContents
    /\ lsAvailable = TRUE
    /\ apiKey = TRUE
    /\ sreq = [r \in Reqs |-> IdleReq]
    /\ flow = IdleFlow
    /\ page = "loading"
    /\ lastSet = [k \in AllKeys |-> NoSet]
    /\ ret = Observe("init", NoKey, Null, FALSE)
    /\ call = NoCall
    /\ enrichmentCache = EmptyMap
    /\ lookups = {}
    /\ pager = IdlePager

\* the FrontendCache has been constructed
Constructed == ret.op # "init"

\* the payload the caches are given
TierPayloads == {analyzeFlights("a1", "d1")}

NextStorage ==
    \/ ~Constructed /\ Reload
    \/ Constructed /\ Tick
    \/ Constructed /\ \E k \in ClientKeys : FrontGet(k)
    \/ Constructed /\ \E k \in ClientKeys \cup {NoKey} : FrontClear(k)
    \/ Constructed /\ \E k \in FrontKeys, data \in TierPayloads, fails \in 0..2 :
                          FrontSetDefault(k, data, fails)
    \/ Constructed /\ FrontCleanup
    \/ Constructed /\ Reload

\* the client cache under any sequence of its operations, over any contents
\* of localStorage
SpecStorage == InitStorage /\ [][NextStorage]_vars

----------------------------------------------------------------------------
(* The client cache called directly with two keys *)

NextPair ==
    \/ Tick
    \/ \E k \in ClientKeys : FrontGet(k)
    \/ \E k \in ClientKeys, data \in TierPayloads, ttl \in TTLs, fails \in 0..2 :
          FrontSet(k, data, ttl, fails)
    \/ \E k \in ClientKeys : FrontClear(k)
    \/ FrontCleanup
    \/ Reload

\* the client cache under any sequence of its operations on two keys
SpecPair == Init /\ [][NextPair]_vars

----------------------------------------------------------------------------
(* The two caches called directly, side by side, the client cache over a      *)
(* localStorage that earlier lifetimes of the page have written               *)

\* the key the server cache is called with
TierServerKeys == {ServerKey(Str("LIS"), Str("D1"))}

NextTiers ==
    \/ ~Constructed /\ Reload
    \/ Constructed /\ Tick
    \/ Constructed /\ \E k \in TierServerKeys, data \in TierPayloads, ttl \in TTLs :
                          ApiSet(k, data, ttl)
    \/ Constructed /\ \E k \in TierServerKeys, data \in TierPayloads : ApiSetDefault(k, data)
    \/ Constructed /\ ApiCleanup
    \/ Constructed /\ \E k \in FrontKeys, data \in TierPayloads, fails \in 0..2 :
                          FrontSetDefault(k, data, fails)
    \/ Constructed /\ FrontCleanup

\* both caches under any sequence of these operations
SpecTiers == InitStorage /\ [][NextTiers]_vars

----------------------------------------------------------------------------
(* The two caches written to and never read, with their sweep timers running *)

NextTimers ==
    \/ Tick
    \/ PageReady
    \/ \E k \in TierServerKeys, data \in TierPayloads, ttl \in TTLs : ApiSet(k, data, ttl)
    \/ \E k \in FrontKeys, data \in TierPayloads, ttl \in TTLs, fails \in 0..2 :
          FrontSet(k, data, ttl, fails)
    \/ ServerSweep
    \/ ClientSweep

\* the clock advances, the page gets ready, and the callbacks of the two
\* setInterval timers run again and again
SpecTimers ==
    /\ Init
    /\ [][NextTimers]_vars
    /\ WF_vars(Tick)
    /\ WF_vars(PageReady)
    /\ WF_vars(ServerSweep)
    /\ WF_vars(ClientSweep)

----------------------------------------------------------------------------
(* The key builders called on their own *)

\* the prefixes, parameter names and values the key builders are called with
KeyPrefixes == {"flightaware", "prediction"}
KeyNames == {"airport", "date"}
KeyValues == {Str("LIS"), Str("D1"),
              Str("LIS") \o Str("&") \o Str("date") \o Str("=") \o Str("D1")}

\* the parameter mappings, as sequences of <<name, value>> in insertion order
KeyParams ==
    {<<>>}
    \cup {<< <<n, v>> >> : n \in KeyNames, v \in KeyValues}
    \cup {<< <<n[1], v[1]>>, <<n[2], v[2]>> >> :
             n \in {x \in KeyNames \X KeyNames : x[1] # x[2]},
             v \in KeyValues \X KeyValues}

KeyInputs ==
    {KeyArgs(p, TRUE, ps) : p \in KeyPrefixes, ps \in KeyParams}
    \cup {KeyArgs(p, FALSE, <<>>) : p \in KeyPrefixes}

\* two calls of a key builder are about to be made
InitKeys ==
    /\ now = 0
    /\ srv = EmptyMap
    /\ mem = EmptyMap
    /\ ls = <<>>
    /\ lsAvailable = TRUE
    /\ apiKey = TRUE
    /\ sreq = [r \in Reqs |-> IdleReq]
    /\ flow = IdleFlow
    /\ page = "loading"
    /\ lastSet = [k \in AllKeys |-> NoSet]
    /\ ret = Observe("init", NoKey, Null, FALSE)
    /\ enrichmentCache = EmptyMap
    /\ lookups = {}
    /\ pager = IdlePager
    /\ \E in1 \in KeyInputs, in2 \in KeyInputs :
          call = [tier |-> "none", in1 |-> in1, in2 |-> in2,
                  out1 |-> [threw |-> FALSE, ret |-> Undefined],
                  out2 |-> [threw |-> FALSE, ret |-> Undefined]]

\* apiCache.generateKey is called with each of the two arguments
CallGenerateKey ==
    /\ call.tier = "none"
    /\ call' = [call EXCEPT !.tier = "server",
                            !.out1 = generateKey_call(call.in1),
                            !.out2 = generateKey_call(call.in2)]
    /\ UNCHANGED <<enrichVars, pager, now, srv, mem, ls, lsAvailable, appVars, lastSet, ret>>

\* frontendCache.key is called with each of the two arguments
CallKey ==
    /\ call.tier = "none"
    /\ call' = [call EXCEPT !.tier = "client",
                            !.out1 = key_call(call.in1),
                            !.out2 = key_call(call.in2)]
    /\ UNCHANGED <<enrichVars, pager, now, srv, mem, ls, lsAvailable, appVars, lastSet, ret>>

NextKeys ==
    \/ CallGenerateKey
    \/ CallKey

\* the key builders of the two caches, on any two arguments
SpecKeys == InitKeys /\ [][NextKeys]_vars

----------------------------------------------------------------------------
(* Claims about the key builders *)

\* the builders have been called
KeysBuilt == call # NoCall /\ call.tier # "none"

\* a parameter mapping as the set of its pairs
PairSet(params) == {params[i] : i \in 1..Len(params)}

\* the names of a mapping in ascending order
Ascending(params) ==
    LET names == {params[i][1] : i \in 1..Len(params)}
        n == Cardinality(names)
    IN  CHOOSE a \in [1..n -> names] :
            \A i \in 1..n, j \in 1..n : i < j => Rank(a[i]) < Rank(a[j])

RECURSIVE PairsText(_, _, _)
\* k1=v1&k2=v2&... for the names a[i..], taking each value from the mapping
PairsText(a, i, params) ==
    IF i > Len(a) THEN <<>>
    ELSE (IF i > 1 THEN Str("&") ELSE <<>>)
         \o Str(a[i]) \o Str("=")
         \o ToStr((CHOOSE pr \in PairSet(params) : pr[1] = a[i])[2])
         \o PairsText(a, i + 1, params)

\* the parameter part of a key
ParamPart(params) == PairsText(Ascending(params), 1, params)

\* C12: for every prefix and every two mappings with the same set of pairs,
\* in any insertion order, generateKey returns one and the same string for
\* both, and so does key
C12_KeyDeterminism ==
    (/\ KeysBuilt
     /\ call.in1.given /\ call.in2.given
     /\ call.in1.prefix = call.in2.prefix
     /\ PairSet(call.in1.params) = PairSet(call.in2.params))
        => (/\ ~call.out1.threw /\ ~call.out2.threw
            /\ call.out1.ret = call.out2.ret)

\* the same two pairs were given in the two orders and the keys agree
C12_Witness ==
    /\ KeysBuilt
    /\ call.in1.given /\ call.in2.given
    /\ call.in1.prefix = call.in2.prefix
    /\ Len(call.in1.params) = 2
    /\ call.in1.params # call.in2.params
    /\ PairSet(call.in1.params) = PairSet(call.in2.params)
    /\ call.out1.ret = call.out2.ret

\* C13 (as stated): in both tiers the key is namespace:prefix:k1=v1&k2=v2,
\* names ascending, with the namespace of the cache
C13_KeyFormat ==
    (KeysBuilt /\ call.in1.given) =>
        call.out1.ret = namespace \o Str(":") \o Str(call.in1.prefix) \o Str(":")
                            \o ParamPart(call.in1.params)

\* C13 (amended): the client's key is namespace:prefix:k1=v1&k2=v2 and the
\* server's key is prefix:k1=v1&k2=v2, names ascending in both
C13_KeyFormatPerTier ==
    (KeysBuilt /\ call.in1.given) =>
        call.out1.ret =
            (IF call.tier = "client" THEN namespace \o Str(":") ELSE <<>>)
                \o Str(call.in1.prefix) \o Str(":") \o ParamPart(call.in1.params)

\* the client's builder was given date before airport
C13_Witness ==
    /\ KeysBuilt
    /\ call.tier = "client"
    /\ call.in1.given
    /\ Len(call.in1.params) = 2
    /\ call.in1.params[1][1] = "date"
    /\ startsWith(call.out1.ret, namespace)

\* C14: called without params, each builder returns the key it returns for
\* the empty mapping and raises nothing
C14_AbsentParams ==
    (KeysBuilt /\ ~call.in1.given) =>
        /\ ~call.out1.threw
        /\ call.out1.ret =
              (IF call.tier = "client" THEN namespace \o Str(":") ELSE <<>>)
                  \o Str(call.in1.prefix) \o Str(":")

\* C15: two arguments that differ in the prefix or in the set of pairs get
\* two different keys
C15_NoCollision ==
    (/\ KeysBuilt
     /\ call.in1.given /\ call.in2.given
     /\ \/ call.in1.prefix # call.in2.prefix
        \/ PairSet(call.in1.params) # PairSet(call.in2.params))
        => call.out1.ret # call.out2.ret

----------------
(* Claims about the server cache *)

\* C1: after set(k, v, T) at time t0 with no later set or clear of k, get(k)
\* returns v at every time in [t0, t0+T) and null at every time >= t0+T,
\* t0+T included.
C1_ServerExpiry ==
    (ret.op = "get" /\ ret.key \in ServerKeys /\ lastSet[ret.key] # NoSet) =>
        LET s == lastSet[ret.key]
        IN  IF now < s.expiry THEN ret.val = s.data ELSE ret.val = Null

\* C9: after cleanup() at time now every remaining entry has expiry > now,
\* every entry that had expiry <= now is gone and every entry that had
\* expiry > now is still there, unchanged.
C9_ServerSweep ==
    [][ret'.op = "cleanup" =>
         /\ \A k \in DOMAIN srv' : srv'[k].expiry > now
         /\ \A k \in DOMAIN srv : srv[k].expiry <= now => k \notin DOMAIN srv'
         /\ \A k \in DOMAIN srv : srv[k].expiry > now =>
                k \in DOMAIN srv' /\ srv'[k] = srv[k]]_vars

\* C17: clear(k) with a key string k leaves no entry for k, leaves every
\* other key's entry as it was and raises nothing, whether or not k had an
\* entry
C17_ClearRemovesOneKey ==
    [][(ret'.op = "clear" /\ ret'.key # NoKey) =>
         /\ ~ret'.raised
         /\ ret'.key \notin DOMAIN srv'
         /\ \A x \in DOMAIN srv \ {ret'.key} :
                x \in DOMAIN srv' /\ srv'[x] = srv[x]]_vars

\* C27: has(k) returns true exactly when the store holds an entry for k
\* with now < expiry, whatever payload the entry has, null, false, 0 and ''
\* included
C27_HasMeansStored ==
    [][ret'.op = "has" =>
         ret'.val = [bool |-> (ret'.key \in DOMAIN srv /\ now < srv[ret'.key].expiry)]]_vars

----------------------------------------------------------------------------
(* Claims about the client cache *)

\* the latest set() of key k wrote localStorage (at once or on the retry)
Saved(k) == lastSet[k] # NoSet /\ lastSet[k].saved

\* localStorage holds the entry of key k that the memory store holds
Mirrored(k) ==
    /\ k \in LsKeys(ls)
    /\ Parses(getItem(ls, k))
    /\ parse(getItem(ls, k)).data = mem[k].data
    /\ parse(getItem(ls, k)).expiry = mem[k].expiry

\* C2: after a set(k, v, T) at t0 whose localStorage write succeeded, with no
\* later set or clear of k, get(k) returns v at every time in [t0, t0+T) and
\* null at every time >= t0+T, and after such a null the entry is neither in
\* the memory store nor in localStorage.
C2_ClientExpiry ==
    (ret.op = "get" /\ ret.key \in ClientKeys /\ Saved(ret.key)) =>
        LET s == lastSet[ret.key]
        IN  IF now < s.expiry
            THEN ret.val = s.data
            ELSE ret.val = Null /\ ret.key \notin DOMAIN mem /\ ret.key \notin LsKeys(ls)

\* C2 witness: a get at the very expiry time of a saved entry returned null
C2_Witness ==
    /\ ret.op = "get" /\ ret.key \in ClientKeys /\ Saved(ret.key)
    /\ now = lastSet[ret.key].expiry
    /\ ret.val = Null

\* C6: after set(k, v, T), get(k) in the same lifetime of the page and before
\* the expiry returns v, whatever became of the localStorage writes and
\* whatever older entry of k localStorage holds.
C6_MemoryServesSet ==
    (/\ ret.op = "get" /\ ret.key \in ClientKeys
     /\ lastSet[ret.key] # NoSet /\ lastSet[ret.key].here
     /\ now < lastSet[ret.key].expiry)
        => ret.val = lastSet[ret.key].data

\* C7: no operation of the client cache raises to its caller, whatever
\* localStorage does; with localStorage unavailable, a get before the expiry
\* of an entry set in this lifetime still returns its payload.
C7_NeverRaises ==
    /\ ret.raised = FALSE
    /\ (/\ ~lsAvailable /\ ret.op = "get" /\ ret.key \in ClientKeys
        /\ lastSet[ret.key] # NoSet /\ lastSet[ret.key].here
        /\ now < lastSet[ret.key].expiry)
           => ret.val = lastSet[ret.key].data

\* C7 witness: localStorage is unavailable and a get returned a payload
C7_Witness == ~lsAvailable /\ ret.op = "get" /\ ret.val # Null /\ ~ret.raised

\* C8 as the spec has it: every entry of the memory store is in localStorage
\* under the same key with the same payload and expiry.
C8_MemorySubsetOfStorage == \A k \in DOMAIN mem : Mirrored(k)

\* C8 amended: every entry of the memory store is in localStorage under the
\* same key with the same payload and expiry, unless the latest set() of its
\* key could not write localStorage.
C8_SavedEntriesMirrored == \A k \in DOMAIN mem : Saved(k) => Mirrored(k)

\* C8 witness: a saved entry sits in both stores after the page was loaded again
C8_Witness ==
    \E k \in DOMAIN mem : Saved(k) /\ ~lastSet[k].here /\ Mirrored(k) /\ now < mem[k].expiry

\* C10: cleanup() at time now removes no entry with expiry > now, neither
\* from the memory store nor from localStorage.
C10_SweepKeepsLive ==
    [][ret'.op = "cleanup" =>
         /\ \A k \in DOMAIN mem : mem[k].expiry > now =>
                k \in DOMAIN mem' /\ mem'[k] = mem[k]
         /\ \A i \in DOMAIN ls :
                (Parses(ls[i].val) /\ parse(ls[i].val).expiry > now) =>
                    (ls[i].key \in LsKeys(ls') /\ getItem(ls', ls[i].key) = ls[i].val)]_vars

\* C11: after cleanup() at time now no well-formed entry of the namespace
\* with expiry <= now is left, neither in the memory store nor in
\* localStorage
C11_SweepComplete ==
    [][ret'.op = "cleanup" =>
         /\ \A k \in DOMAIN mem' : InNamespace(k) => mem'[k].expiry > now
         /\ \A i \in DOMAIN ls' :
                (InNamespace(ls'[i].key) /\ Parses(ls'[i].val))
                    => parse(ls'[i].val).expiry > now]_vars

\* C16: a set(k, v2, ttl) made while the entry of an earlier set(k, v1, ttl)
\* is in the store and not expired leaves get(k) = v2 with expiry now + ttl,
\* and one entry for k
C16_Overwrite ==
    [][(/\ ret'.op = "set"
        /\ ret'.key \in DOMAIN mem
        /\ lastSet[ret'.key] # NoSet
        /\ lastSet[ret'.key].here
        /\ mem[ret'.key].data = lastSet[ret'.key].data
        /\ mem[ret'.key].expiry = lastSet[ret'.key].expiry
        /\ now < mem[ret'.key].expiry
        /\ lastSet'[ret'.key].expiry - now
              = mem[ret'.key].expiry - mem[ret'.key].timestamp)
       => (/\ FrontendCache_get(mem', ls', lsAvailable, ret'.key, now).ret
                 = lastSet'[ret'.key].data
           /\ FrontendCache_get(mem', ls', lsAvailable, ret'.key, now).mem[ret'.key].expiry
                 = lastSet'[ret'.key].expiry
           /\ Cardinality({i \in DOMAIN ls' : ls'[i].key = ret'.key}) <= 1)]_vars

\* key k belongs to the namespace of the cache
OwnKey(k) == startsWith(k, namespace \o Str(":"))

\* C18: clear() without a key removes every localStorage key of the cache's
\* namespace and leaves every other localStorage key and its value alone
C18_ClearKeepsOtherNamespaces ==
    [][(ret'.op = "clear" /\ ret'.key = NoKey) =>
         \A i \in DOMAIN ls :
            IF OwnKey(ls[i].key)
            THEN ls[i].key \notin LsKeys(ls')
            ELSE ls[i].key \in LsKeys(ls') /\ getItem(ls', ls[i].key) = ls[i].val]_vars

\* C19: get(k) over an unparseable localStorage value of k, the memory store
\* having no entry of k, returns null and leaves no value under k
C19_CorruptEntryRemoved ==
    [][(/\ ret'.op = "get"
        /\ ret'.key \notin DOMAIN mem
        /\ ret'.key \in LsKeys(ls)
        /\ ~Parses(getItem(ls, ret'.key)))
       => (/\ ret'.val = Null
           /\ ret'.key \notin LsKeys(ls'))]_vars

\* C20: right after the constructor has run over a localStorage of
\* well-formed entries of the namespace, the memory store holds exactly the
\* entries with now < expiry and localStorage holds no entry with
\* expiry <= now
C20_StartupLoad ==
    [][(/\ ret'.op = "constructor"
        /\ \A i \in DOMAIN ls : OwnKey(ls[i].key) /\ Parses(ls[i].val))
       => (/\ DOMAIN mem' = {ls[i].key : i \in {j \in DOMAIN ls :
                                OwnKey(ls[j].key) /\ now < parse(ls[j].val).expiry}}
           /\ \A k \in DOMAIN mem' : mem'[k] = parse(getItem(ls, k))
           /\ \A i \in DOMAIN ls' :
                 OwnKey(ls'[i].key) => now < parse(ls'[i].val).expiry)]_vars

\* what get(k) would return from the stores m and l now
Answer(m, l, k) == FrontendCache_get(m, l, lsAvailable, k, now).ret

\* C21: get(k) of a FrontendCache constructed after a set(k, v, T) at t0 that
\* wrote localStorage returns v at every time before t0+T, the entry keeping
\* the expiry t0+T, and null at every time >= t0+T
C21_ReloadRoundTrip ==
    \A k \in ClientKeys :
        (ret.op = "get" /\ ret.key = k /\ Saved(k) /\ ~lastSet[k].here) =>
            IF now < lastSet[k].expiry
            THEN /\ ret.val = lastSet[k].data
                 /\ k \in DOMAIN mem
                 /\ mem[k].expiry = lastSet[k].expiry
            ELSE /\ ret.val = Null
                 /\ k \notin DOMAIN mem

\* C21 witness: after time has passed and the page was loaded again, a get
\* returned the payload of a set of the earlier lifetime
C21_Witness ==
    /\ ret.op = "get" /\ ret.key \in ClientKeys
    /\ Saved(ret.key) /\ ~lastSet[ret.key].here
    /\ now > 0
    /\ ret.val = lastSet[ret.key].data

\* C22: the entry of a set(k, v, ttl) with ttl > 0 is what get(k) returns
\* once the set has returned, the sweep it runs after a failed localStorage
\* write included, and once a sweep that follows it at once has returned
C22_SetSurvivesSweep ==
    [][/\ (ret'.op = "set" /\ lastSet'[ret'.key].expiry > now)
            => Answer(mem', ls', ret'.key) = lastSet'[ret'.key].data
       /\ (ret.op = "set" /\ ret'.op = "cleanup" /\ lastSet[ret.key].expiry > now)
            => Answer(mem', ls', ret.key) = lastSet[ret.key].data]_vars

\* C30 (client tier): get(k), set(k, ...) and clear(k) leave what get(x)
\* returns for any other key x with a non-expired entry as it was
C30_OtherKeysUntouched ==
    [][(ret'.op \in {"get", "set", "clear"} /\ ret'.key \in ClientKeys) =>
         \A x \in ClientKeys \ {ret'.key} :
            Answer(mem, ls, x) # Null => Answer(mem', ls', x) = Answer(mem, ls, x)]_vars

\* C31: get(k) returns null or the payload of the latest set(k, ...) that no
\* clear of k has followed, never the payload of an earlier set
C31_NoSupersededValue ==
    (ret.op = "get" /\ ret.key \in ClientKeys) =>
        \/ ret.val = Null
        \/ lastSet[ret.key] # NoSet /\ ret.val = lastSet[ret.key].data

\* C32: with one unparseable value under the namespace in localStorage,
\* cleanup() removes every other expired entry of the namespace and the
\* constructor loads every other non-expired entry of the namespace
C32_CorruptKeepsOthers ==
    [][Cardinality({i \in DOMAIN ls : OwnKey(ls[i].key) /\ ~Parses(ls[i].val)}) = 1 =>
         /\ ret'.op = "cleanup" =>
                \A i \in DOMAIN ls :
                    (OwnKey(ls[i].key) /\ Parses(ls[i].val) /\ parse(ls[i].val).expiry <= now)
                        => ls[i].key \notin LsKeys(ls')
         /\ ret'.op = "constructor" =>
                \A i \in DOMAIN ls :
                    (OwnKey(ls[i].key) /\ Parses(ls[i].val) /\ now < parse(ls[i].val).expiry)
                        => ls[i].key \in DOMAIN mem']_vars

\* the memory store holds a non-expired entry for k
InMemory(k) == k \in DOMAIN mem /\ now < mem[k].expiry

\* localStorage holds a non-expired entry for k
InStorage(k) ==
    /\ lsAvailable
    /\ k \in LsKeys(ls)
    /\ Parses(getItem(ls, k))
    /\ now < parse(getItem(ls, k)).expiry

\* C33: get(k) is a hit exactly when the memory store or localStorage holds
\* a non-expired entry for k; it returns the memory entry's payload when
\* that entry is not expired, otherwise the payload of the localStorage
\* entry, which it copies into the memory store as it is
C33_TwoLevelLookup ==
    [][(ret'.op = "get" /\ ret'.key \in ClientKeys) =>
         /\ (ret'.val # Null) = (InMemory(ret'.key) \/ InStorage(ret'.key))
         /\ InMemory(ret'.key) => ret'.val = mem[ret'.key].data
         /\ (~InMemory(ret'.key) /\ InStorage(ret'.key)) =>
                /\ ret'.val = parse(getItem(ls, ret'.key)).data
                /\ ret'.key \in DOMAIN mem'
                /\ mem'[ret'.key] = parse(getItem(ls, ret'.key))]_vars

\* C33 witness: a get has just returned the payload of an entry that
\* localStorage holds with a later expiry than the one the latest set of the
\* key gave: the memory entry of that set had expired
C33_Witness ==
    /\ ret.op = "get" /\ ret.key \in ClientKeys /\ ret.val # Null
    /\ lastSet[ret.key] # NoSet
    /\ lastSet[ret.key].expiry <= now
    /\ ret.key \in DOMAIN mem
    /\ mem[ret.key] = parse(getItem(ls, ret.key))

\* C34: once clear() has run in a page lifetime, every fetch-with-cache call
\* for a key that nothing has been stored under since is a miss: the
\* prediction's lookup finds nothing and the enrichment lookup sends its
\* request
C34_ClearMeansMiss ==
    (ret.op = "clear" /\ ret.key = NoKey /\ page = "ready") =>
        /\ \A a \in AppAirports, d \in Dates :
               lastSet[ClientKey(a, d)] = NoSet =>
                   ~Truthy(FrontendCache_get(mem, ls, lsAvailable, ClientKey(a, d), now).ret)
        /\ \A kind \in EnrichmentKinds, code \in Codes :
               (lastSet[EnrichmentKey(kind, code)] = NoSet /\ <<kind, code>> \notin lookups) =>
                   enrichment_start(enrichmentCache, mem, ls, lsAvailable, kind, code, now).fetch

----------------------------------------------------------------------------
(* Claims about the two caches side by side *)

\* C26: set(k, v) without a ttl leaves an entry that expires 24 hours later
\* in the server cache, 30 minutes later in the client cache
C26_DefaultTTL ==
    [][ret'.op = "set without ttl" =>
         /\ ret'.key \in ServerKeys =>
                /\ ret'.key \in DOMAIN srv'
                /\ srv'[ret'.key].expiry = now + Ticks(24 * 60 * 60 * 1000)
         /\ (ret'.key \in ClientKeys /\ ret'.key \in DOMAIN mem')
                => mem'[ret'.key].expiry = now + Ticks(30 * 60 * 1000)
         /\ (ret'.key \in ClientKeys /\ lastSet'[ret'.key].saved)
                => /\ ret'.key \in LsKeys(ls')
                   /\ parse(getItem(ls', ret'.key)).expiry = now + Ticks(30 * 60 * 1000)]_vars

\* C26 witness: the client cache has just been given an entry without a ttl
\* and holds it, the server cache holds one that has 24 hours to live
C26_Witness ==
    /\ ret.op = "set without ttl"
    /\ ret.key \in ClientKeys
    /\ ret.key \in DOMAIN mem
    /\ lastSet[ret.key].saved
    /\ \E k \in DOMAIN srv : srv[k].expiry = now + Ticks(24 * 60 * 60 * 1000)

\* C28: after a cleanup, a second cleanup at the same time changes nothing,
\* in the server store, the memory store and localStorage
C28_SweepIdempotent ==
    [][ret'.op = "cleanup" =>
         /\ srv' # srv => ApiCache_cleanup(srv', now) = srv'
         /\ (mem' # mem \/ ls' # ls) =>
                /\ FrontendCache_cleanup(mem', ls', lsAvailable, now).mem = mem'
                /\ FrontendCache_cleanup(mem', ls', lsAvailable, now).ls = ls']_vars

\* C28 witness: a cleanup has just run, an expired entry of the server cache
\* and an expired entry of the client cache are gone
C28_Witness ==
    /\ ret.op = "cleanup"
    /\ \E k \in ServerKeys :
          lastSet[k] # NoSet /\ lastSet[k].expiry < now /\ k \notin DOMAIN srv
    /\ \E k \in ClientKeys :
          /\ lastSet[k] # NoSet /\ lastSet[k].expiry < now
          /\ k \notin DOMAIN mem /\ k \notin LsKeys(ls)

----------------------------------------------------------------------------
(* Claims about a prediction request, end to end *)

\* the key of the page's fetchAndDisplayPrediction call
FlowKey(f) == ClientKey(f.airport, f.date)

\* the key of a request to the handler
ReqKey(q) == ServerKey(q.airport, q.date)

\* this step is the handler starting on request r
HandlerStarts(r) ==
    /\ sreq[r].pc \in {"idle", "sent"}
    /\ sreq'[r].pc \in {"fetching", "done"}

\* this step is the handler running on request r
HandlerRuns(r) ==
    /\ sreq'[r].pc \in {"fetching", "done"}
    /\ sreq'[r].pc # sreq[r].pc

\* the responses the handler gives after both fetches succeeded
SuccessBodies == {analyzeFlights(a, d) : a \in ArrivalsData, d \in DeparturesData}

\* request q has ended after both fetches succeeded
SuccessExit(q) == q.pc = "done" /\ q.status = 200 /\ q.body \in SuccessBodies

\* the client holds a non-expired entry under key k
ClientHolds(k) ==
    \/ k \in DOMAIN mem /\ isValid(mem[k], now)
    \/ /\ lsAvailable
       /\ k \in LsKeys(ls)
       /\ Parses(getItem(ls, k))
       /\ isValid(parse(getItem(ls, k)), now)

\* C3: when the provider failed on the page's request, the client cache
\* holds no entry for that request once the response has been handled
C3_NoNegativeCaching ==
    [][(/\ flow.pc = "waiting"
        /\ flow'.pc = "done"
        /\ sreq'["page"].pc = "idle"
        /\ sreq["page"].body = MockBody)
       => (/\ FlowKey(flow) \notin DOMAIN mem'
           /\ FlowKey(flow) \notin LsKeys(ls'))]_vars

\* C4 (as stated): a request that ended otherwise than after two successful
\* fetches has left the server store as it found it
C4_StoreUntouched ==
    \A r \in Reqs :
        (sreq[r].pc = "done" /\ ~SuccessExit(sreq[r])) => ~sreq[r].changed

\* C4 (amended): the handler writes an entry only in the step that ends
\* after both fetches succeeded, and that entry is the response with the
\* prediction ttl; any other step of the handler leaves the store alone or
\* removes the expired entry of the request's own key
C4_WritesOnlyOnSuccess ==
    [][\A r \in Reqs :
          HandlerRuns(r) =>
             IF SuccessExit(sreq'[r])
             THEN srv' = MapSet(srv, ReqKey(sreq'[r]),
                                [data |-> sreq'[r].body, expiry |-> now + PredictionTTL])
             ELSE \/ srv' = srv
                  \/ /\ HandlerStarts(r)
                     /\ ReqKey(sreq'[r]) \in DOMAIN srv
                     /\ ApiExpired(srv[ReqKey(sreq'[r])], now)
                     /\ srv' = MapDelete(srv, ReqKey(sreq'[r]))]_vars

\* a request has ended with the provider's failure after its lookup removed
\* the expired entry of its key
C4_Witness ==
    \E r \in Reqs :
        /\ sreq[r].pc = "done"
        /\ sreq[r].body = MockBody
        /\ sreq[r].changed

\* C5: a request whose key has a non-expired entry is answered without a
\* call to the provider, and a fetchAndDisplayPrediction whose key has a
\* non-expired entry in the client cache returns without a request
C5_HitMakesNoCall ==
    [][/\ \A r \in Reqs :
            (/\ HandlerStarts(r)
             /\ sreq'[r].method = "GET"
             /\ ReqKey(sreq'[r]) \in DOMAIN srv
             /\ ~ApiExpired(srv[ReqKey(sreq'[r])], now))
            => (/\ sreq'[r].pc = "done"
                /\ sreq'[r].calls = 0
                /\ sreq'[r].status = 200
                /\ sreq'[r].body = HitBody(srv[ReqKey(sreq'[r])].data, now))
       /\ (/\ flow.pc = "idle"
           /\ flow'.pc # "idle"
           /\ ClientHolds(FlowKey(flow')))
          => (/\ flow'.pc = "done"
              /\ flow'.requests = 0
              /\ sreq' = sreq)]_vars

\* both tiers have just answered from their cache
C5_Witness ==
    /\ flow.pc = "done"
    /\ flow.requests = 0
    /\ \E r \in Reqs :
          /\ sreq[r].pc = "done"
          /\ sreq[r].method = "GET"
          /\ sreq[r].status = 200
          /\ sreq[r].calls = 0

\* this step is the page's fetchAndDisplayPrediction caching a response
\* under key k
ClientSets(k) ==
    /\ flow.pc = "waiting"
    /\ flow'.pc = "done"
    /\ sreq'["page"].pc = "idle"
    /\ Ok(sreq["page"].status)
    /\ FlowKey(flow) = k

\* this step is the page being loaded again
PageReloads == page = "ready" /\ page' = "loading"

C29_NoCoalescing ==
    [][\A r \in Reqs :
          /\ (/\ HandlerStarts(r)
               /\ sreq'[r].method = "GET"
               /\ apiKey
               /\ sreq'[r].airport # Undefined
               /\ sreq'[r].date \notin {Undefined, BadDate}
               /\ (ReqKey(sreq'[r]) \in DOMAIN srv => ApiExpired(srv[ReqKey(sreq'[r])], now)))
              => (/\ sreq'[r].pc = "fetching"
                  /\ sreq'[r].calls = 2
                  /\ \A o \in Reqs \ {r} : sreq[o].pc = "fetching" => sreq'[o] = sreq[o])
          /\ (HandlerRuns(r) /\ SuccessExit(sreq'[r]))
              => (/\ sreq[r].calls = 2
                  /\ DOMAIN srv' = DOMAIN srv \cup {ReqKey(sreq'[r])}
                  /\ srv'[ReqKey(sreq'[r])] =
                        [data |-> sreq'[r].body, expiry |-> now + Ticks(30 * 60 * 1000)])]_vars

\* C29 witness: two requests for the same key both found it a miss; one has
\* ended and its entry is in the store, the other still waits for its fetches
C29_Witness ==
    \E r \in Reqs, o \in Reqs :
        /\ r # o
        /\ SuccessExit(sreq[r]) /\ sreq[r].stored /\ sreq[r].calls = 2
        /\ sreq[o].pc = "fetching" /\ sreq[o].calls = 2
        /\ ReqKey(sreq[o]) = ReqKey(sreq[r])
        /\ srv[ReqKey(sreq[r])] = [data |-> sreq[r].body, expiry |-> now + Ticks(30 * 60 * 1000)]

\* this step is an enrichment lookup caching the response for (kind, code)
EnrichSets(kind, code) ==
    /\ <<kind, code>> \in lookups
    /\ <<kind, code>> \notin lookups'
    /\ <<kind, code>> \in DOMAIN enrichmentCache'

\* what this step has written under key k in the client cache expires at e
WrittenExpires(k, e) ==
    /\ k \in DOMAIN mem' => mem'[k].expiry = e
    /\ (k \in LsKeys(ls') /\ getItem(ls', k) # getItem(ls, k))
          => parse(getItem(ls', k)).expiry = e

\* C25: the entry a call site writes expires at the time of the set plus 30
\* minutes for a prediction, in the handler and in the page, plus 7 days for
\* an airline or aircraft enrichment
C25_CallSiteTTLs ==
    [][/\ \A r \in Reqs :
            (HandlerRuns(r) /\ SuccessExit(sreq'[r]))
                => /\ ReqKey(sreq'[r]) \in DOMAIN srv'
                   /\ srv'[ReqKey(sreq'[r])].expiry = now + Ticks(30 * 60 * 1000)
       /\ \A k \in ClientKeys :
            ClientSets(k) => WrittenExpires(k, now + Ticks(30 * 60 * 1000))
       /\ \A kind \in EnrichmentKinds, code \in Codes :
            EnrichSets(kind, code)
                => WrittenExpires(EnrichmentKey(kind, code),
                                  now + Ticks(7 * 24 * 60 * 60 * 1000))]_vars

\* C25 witness: the three kinds of entry sit in their stores, each with the
\* time to live of its class
C25_Witness ==
    /\ \E k \in DOMAIN srv : srv[k].expiry = now + Ticks(30 * 60 * 1000)
    /\ \E k \in ClientKeys \cap DOMAIN mem : mem[k].expiry = now + Ticks(30 * 60 * 1000)
    /\ \A k \in EnrichmentKeys :
          /\ k \in DOMAIN mem /\ mem[k].expiry = now + Ticks(7 * 24 * 60 * 60 * 1000)
          /\ k \in LsKeys(ls)
          /\ parse(getItem(ls, k)).expiry = now + Ticks(7 * 24 * 60 * 60 * 1000)

\* C24 (client tier, memory store): an entry of the memory store whose
\* expiry has passed is eventually gone from it (removed, or replaced by a
\* later set), although nothing reads it
C24_SweepLiveness ==
    \A k \in FrontKeys :
        (k \in DOMAIN mem /\ mem[k].expiry <= now)
            ~> (k \notin DOMAIN mem \/ mem[k].expiry > now)

\* C36: a request that lacks airport or date gets a 400 response, starts no
\* fetch from the provider and leaves the server store as it was
C36_MissingParameters ==
    [][(/\ HandlerStarts("other")
        /\ sreq'["other"].method = "GET"
        /\ sreq'["other"].airport = Undefined \/ sreq'["other"].date = Undefined) =>
           /\ sreq'["other"].pc = "done"
           /\ sreq'["other"].status = 400
           /\ sreq'["other"].calls = 0
           /\ srv' = srv]_vars

\* the server store holds an entry for k that has not expired
Held(k) == k \in DOMAIN srv /\ now <= srv[k].expiry

\* C37: on a hit the handler responds with the stored payload's fields plus
\* cached = true and a cacheTime, and the stored entry stays as it was,
\* without those two fields; a response produced on a miss has no cached
\* field
C37_HitResponse ==
    [][(HandlerRuns("other") /\ sreq'["other"].method = "GET") =>
          LET q == sreq'["other"]
              k == ReqKey(q)
          IN  IF HandlerStarts("other") /\ Held(k)
              THEN /\ q.pc = "done" /\ q.status = 200
                   /\ DOMAIN q.body = DOMAIN srv[k].data \cup {"cached", "cacheTime"}
                   /\ \A f \in DOMAIN srv[k].data : q.body[f] = srv[k].data[f]
                   /\ q.body.cached = TRUE
                   /\ srv' = srv
                   /\ {"cached", "cacheTime"} \cap DOMAIN srv'[k].data = {}
              ELSE /\ q.pc = "done" => "cached" \notin DOMAIN q.body
                   /\ q.stored => {"cached", "cacheTime"} \cap DOMAIN srv'[k].data = {}]_vars

\* C37 witness: a response says cached = true while the entry it came from
\* is in the store without the field
C37_Witness ==
    /\ sreq["other"].pc = "done"
    /\ "cached" \in DOMAIN sreq["other"].body
    /\ sreq["other"].body.cached = TRUE
    /\ ReqKey(sreq["other"]) \in DOMAIN srv
    /\ "cached" \notin DOMAIN srv[ReqKey(sreq["other"])].data

\* this step is fetchAndDisplayPrediction taking a response that is ok
Receives ==
    /\ flow.pc = "waiting" /\ flow'.pc = "done"
    /\ Ok(sreq["page"].status)

\* this step is fetchAndDisplayPrediction answering from the client cache
Serves == flow.pc = "idle" /\ flow'.pc = "done"

\* the entry the client cache has just answered from
Served == mem'[ClientKey(flow'.airport, flow'.date)]

RECURSIVE Flights(_)
\* the flights of a sequence of pages, in the order of the pages
Flights(pages) ==
    IF pages = <<>> THEN <<>>
    ELSE LET d == Head(pages)
         IN  (IF d.arrivals # Undefined THEN d.arrivals
              ELSE IF d.departures # Undefined THEN d.departures
              ELSE IF d.flights # Undefined THEN d.flights
              ELSE <<>>) \o Flights(Tail(pages))

\* what one step of fetchFlightAwareData must do
PagerStep ==
    /\ pager'.sent <= maxPages
    /\ pager'.pc = "returned" => pager'.result = Flights(pager'.received)
    /\ pager'.pc # "returned" => pager'.result = Undefined
    /\ \A response \in Responses :
           PagerResponse(response) =>
               /\ ~response.ok => pager'.pc = "raised"
               /\ (response.ok /\ ~Truthy(cursorOf(response.next))) =>
                      pager'.pc = "returned" /\ pager'.sent = pager.sent
               /\ pager'.pc = "waiting" => pager'.sent = pager.sent + 1

\* C39: a call of fetchFlightAwareData sends at most 10 requests, stops at
\* the first page without a cursor, returns the flights of the pages
\* received in their order, raises at the first response that is not ok
\* without returning anything, and ends once the provider has answered
\* every request
C39_Pagination ==
    /\ [][PagerStep]_vars
    /\ <>(pager.pc \in {"returned", "raised"})

\* C39 witness: a call has returned the flights of ten pages, the tenth
\* carrying a cursor
C39_Witness ==
    /\ pager.pc = "returned"
    /\ Len(pager.received) = maxPages
    /\ Truthy(pager.cursor)
    /\ pager.result = Flights(pager.received)
    /\ Len(pager.result) > 1

====
